---- MODULE Spec2Model ----
(***************************************************************************)
(* Model of finite_automation/__init__.py: the declaration operators that  *)
(* build a graph of Automation objects (Automation @ State, automation @   *)
(* Condition, condition | Transition, transition > State), the stepper     *)
(* Automation.next and the module-level driver loop.                       *)
(*                                                                         *)
(* Objects are numbered in allocation order; 0 stands for None.  A dict is *)
(* a sequence of <<key, value>> pairs in insertion order, as Python keeps  *)
(* it.  Condition and Transition are abstract (their __call__ raises       *)
(* NotImplementedError); the kinds instantiated here are the concrete ones *)
(* (OK, Noop) and caller-defined concrete subclasses.                      *)
(***************************************************************************)
EXTENDS Integers, Sequences, FiniteSets, TLC

\* ---- bounds of the model ----
MaxAutomata == 3
MaxConditions == 2
MaxTransitions == 2

\* ---- domains ----
\* ExampleEvent.X of the source and a second caller-defined event
Events == {"X", "Y"}
\* State.Start, State.Finish
States == {"Start", "Finish"}
\* Automation and a caller-defined subclass of it
AutomationClasses == {"Automation", "Sub"}
\* the classes a caller constructs directly
CallerClasses == {"Sub"}
\* OK and a caller-defined concrete condition, true of the event X only
ConditionClasses == {"OK", "IsX"}
\* Noop, the concrete transition of the source
TransitionClasses == {"Noop"}

None == 0

\* automata   : the Automation instances, in allocation order
\* conditions : the Condition instances, in allocation order
\* trans      : the Transition instances, in allocation order
\* last       : the call made last, its arguments and its result
\* pc         : "build" while declaring; "run", "done", "failed" for the
\*              module-level loop
\* root       : the automaton the loop started from (`start`)
\* current    : the loop variable `a`
\* steps      : the number of `a.next` calls the loop has made
\* calls      : the number of transition actions the loop has run
\* prev       : when the call made last is `a.next(event)` and so was the
\*              call before it, on the same automaton with the same event:
\*              the result of that earlier call
VARIABLES automata, conditions, trans, last, pc, root, current, steps, calls,
          prev

vars ==
    <<automata, conditions, trans, last, pc, root, current, steps, calls,
      prev>>

\* ---- Automation ----

\* Automation.__init__: the given state and an empty transition table.
\* `cls` is the concrete class of the instance; `via` records the operation
\* that allocated it.
AutomationInit(cls, state, via) ==
    [cls |-> cls, state |-> state, transitions |-> <<>>, via |-> via]

\* State.__rmatmul__(self, other): `other @ self`.
RMatMul(other, self) == AutomationInit("Automation", self, "root")

\* finished once the table is empty
FinishedEmpty(a) == automata[a].transitions = <<>>

\* Automation.finished
Finished(a) == automata[a].state = "Finish"

\* a copy that keeps the transition table of the source
CloneCopy(a, state) ==
    [cls |-> automata[a].cls, state |-> state,
     transitions |-> automata[a].transitions, via |-> "clone"]

\* a clone of the base class, whatever the class of the source
CloneBase(a, state) == AutomationInit("Automation", state, "clone")

\* Automation.clone(state): self.__class__.__call__(state)
Clone(a, state) == AutomationInit(automata[a].cls, state, "clone")

\* ---- dict operations on a transition table ----

Keys(table) == {table[i][1] : i \in DOMAIN table}

Values(table) == {table[i][2] : i \in DOMAIN table}

ContainsNever(table, key) == FALSE

\* `key in table`
Contains(table, key) == key \in Keys(table)

\* `table[key] = value`: replaces the value of an existing key in place,
\* appends a new key at the end.
DictSet(table, key, value) ==
    IF key \in Keys(table)
    THEN [i \in DOMAIN table |->
            IF table[i][1] = key THEN <<key, value>> ELSE table[i]]
    ELSE Append(table, <<key, value>>)

\* ---- Condition and Transition ----

\* the owner is not stored
ConditionInitNoOwner(cls, a) == [cls |-> cls, automation |-> None]

\* Condition.__init__
ConditionInit(cls, a) == [cls |-> cls, automation |-> a]

CallNegated(cls, event) ==
    CASE cls = "OK" -> FALSE
      [] cls = "IsX" -> event # "X"

\* condition(event) for the concrete condition classes
Call(cls, event) ==
    CASE cls = "OK" -> TRUE
      [] cls = "IsX" -> event = "X"

\* the owner is not stored
TransitionInitNoOwner(cls, a) == [cls |-> cls, automation |-> None, next |-> None]

\* Transition.__init__
TransitionInit(cls, a) == [cls |-> cls, automation |-> a, next |-> None]

IsBoundNever(t) == FALSE

\* `self.next is not None` in Transition.__gt__
IsBound(t) == trans[t].next # None

\* ---- the result of the last operation ----

NoOp ==
    [op |-> "none", outcome |-> "ok", cls |-> "", state |-> "", event |-> "",
     a |-> 0, c |-> 0, t |-> 0, ret |-> 0, ran |-> <<>>, driver |-> FALSE]

\* the call made last does not repeat the call before it
NoPrev == [repeat |-> FALSE, outcome |-> "ok", ret |-> 0, ran |-> <<>>]

\* the result of the call before, when `a.next(event)` repeats it
Repeated(a, event) ==
    IF last.op = "Step" /\ last.a = a /\ last.event = event
    THEN [repeat |-> TRUE, outcome |-> last.outcome, ret |-> last.ret,
          ran |-> last.ran]
    ELSE NoPrev

TypeOK ==
    /\ automata \in Seq([cls : AutomationClasses, state : States,
                         transitions : Seq(Nat \X Nat),
                         via : {"root", "clone"}])
    /\ Len(automata) <= MaxAutomata
    /\ Len(conditions) <= MaxConditions
    /\ Len(trans) <= MaxTransitions
    /\ pc \in {"build", "run", "done", "failed"}

Init ==
    /\ automata = <<>>
    /\ conditions = <<>>
    /\ trans = <<>>
    /\ last = NoOp
    /\ pc = "build"
    /\ root = None
    /\ current = None
    /\ steps = 0
    /\ calls = 0
    /\ prev = NoPrev

\* ---- declaration operators ----

\* `cls @ state` with cls an Automation class: type has no __matmul__, so
\* Python calls State.__rmatmul__(state, cls).
Begin(cls, state) ==
    /\ pc = "build"
    /\ Len(automata) < MaxAutomata
    /\ automata' = Append(automata, RMatMul(cls, state))
    /\ last' = [NoOp EXCEPT !.op = "Begin", !.cls = cls, !.state = state,
                            !.ret = Len(automata) + 1]
    /\ prev' = NoPrev
    /\ UNCHANGED <<conditions, trans, pc, root, current, steps, calls>>

\* `cls(state)`: direct construction of an Automation (sub)class.
Construct(cls, state) ==
    /\ pc = "build"
    /\ Len(automata) < MaxAutomata
    /\ automata' = Append(automata, AutomationInit(cls, state, "root"))
    /\ last' = [NoOp EXCEPT !.op = "Construct", !.cls = cls, !.state = state,
                            !.ret = Len(automata) + 1]
    /\ prev' = NoPrev
    /\ UNCHANGED <<conditions, trans, pc, root, current, steps, calls>>

\* Automation.__matmul__: `a @ cls` with cls a Condition class.
MatMul(a, cls) ==
    /\ pc = "build"
    /\ Len(conditions) < MaxConditions
    /\ conditions' = Append(conditions, ConditionInit(cls, a))
    /\ last' = [NoOp EXCEPT !.op = "AttachCondition", !.a = a, !.cls = cls,
                            !.ret = Len(conditions) + 1]
    /\ prev' = NoPrev
    /\ UNCHANGED <<automata, trans, pc, root, current, steps, calls>>

\* the entry goes to the table of the automaton allocated last
OrWrongTable(c, cls) ==
    LET a == Len(automata)
        t == Len(trans) + 1
    IN /\ pc = "build"
       /\ Len(trans) < MaxTransitions
       /\ trans' = Append(trans, TransitionInit(cls, conditions[c].automation))
       /\ IF Contains(automata[a].transitions, c)
          THEN /\ automata' = automata
               /\ last' = [NoOp EXCEPT !.op = "Commit", !.c = c, !.cls = cls,
                                       !.t = t,
                                       !.outcome = "DuplicateCondition"]
          ELSE /\ automata' = [automata EXCEPT ![a].transitions =
                                   DictSet(@, c, t)]
               /\ last' = [NoOp EXCEPT !.op = "Commit", !.c = c, !.cls = cls,
                                       !.t = t, !.ret = t]
       /\ prev' = NoPrev
       /\ UNCHANGED <<conditions, pc, root, current, steps, calls>>

\* Condition.__or__: `c | cls` with cls a Transition class.  The Transition
\* is constructed before the duplicate check.
Or(c, cls) ==
    LET a == conditions[c].automation
        t == Len(trans) + 1
    IN /\ pc = "build"
       /\ Len(trans) < MaxTransitions
       /\ trans' = Append(trans, TransitionInit(cls, a))
       /\ IF Contains(automata[a].transitions, c)
          THEN /\ automata' = automata
               /\ last' = [NoOp EXCEPT !.op = "Commit", !.c = c, !.cls = cls,
                                       !.t = t,
                                       !.outcome = "DuplicateCondition"]
          ELSE /\ automata' = [automata EXCEPT ![a].transitions =
                                   DictSet(@, c, t)]
               /\ last' = [NoOp EXCEPT !.op = "Commit", !.c = c, !.cls = cls,
                                       !.t = t, !.ret = t]
       /\ prev' = NoPrev
       /\ UNCHANGED <<conditions, pc, root, current, steps, calls>>

\* Transitions the caller holds a reference to: those returned by a
\* successful `|`, which are the values of the tables.
Held == UNION {Values(automata[a].transitions) : a \in DOMAIN automata}

\* the transition is bound to its own automaton instead of a clone
GtSelf(t, state) ==
    /\ pc = "build"
    /\ t \in Held
    /\ IF IsBound(t)
       THEN /\ last' = [NoOp EXCEPT !.op = "BindNext", !.t = t,
                                    !.state = state,
                                    !.outcome = "TransitionAlreadyBound"]
            /\ UNCHANGED <<automata, trans>>
       ELSE /\ automata' = automata
            /\ trans' = [trans EXCEPT ![t].next = trans[t].automation]
            /\ last' = [NoOp EXCEPT !.op = "BindNext", !.t = t,
                                    !.state = state,
                                    !.ret = trans[t].automation]
    /\ prev' = NoPrev
    /\ UNCHANGED <<conditions, pc, root, current, steps, calls>>

\* Transition.__gt__: `t > state`.
Gt(t, state) ==
    /\ pc = "build"
    /\ t \in Held
    /\ IF IsBound(t)
       THEN /\ last' = [NoOp EXCEPT !.op = "BindNext", !.t = t,
                                    !.state = state,
                                    !.outcome = "TransitionAlreadyBound"]
            /\ UNCHANGED <<automata, trans>>
       ELSE /\ Len(automata) < MaxAutomata
            /\ automata' = Append(automata, Clone(trans[t].automation, state))
            /\ trans' = [trans EXCEPT ![t].next = Len(automata) + 1]
            /\ last' = [NoOp EXCEPT !.op = "BindNext", !.t = t,
                                    !.state = state,
                                    !.ret = Len(automata) + 1]
    /\ prev' = NoPrev
    /\ UNCHANGED <<conditions, pc, root, current, steps, calls>>

\* ---- the stepper ----

\* satisfied_conditions of Automation._get_transition, in table order
SatisfiedConditions(a, event) ==
    SelectSeq(automata[a].transitions,
              LAMBDA p : Call(conditions[p[1]].cls, event))

\* `transition = None`, then the loop variable of
\* `for condition, transition in self.transitions.items()`
LastEntry(a) ==
    LET table == automata[a].transitions
    IN IF Len(table) = 0 THEN None ELSE table[Len(table)][2]

\* first match wins instead of rejecting several matches
GetTransitionFirstMatch(a, event) ==
    LET satisfied == SatisfiedConditions(a, event)
    IN IF Len(satisfied) = 0
       THEN [outcome |-> "NoSatisfiedCondition", transition |-> None]
       ELSE [outcome |-> "ok", transition |-> satisfied[1][2]]

\* no match falls through to the last entry of a table that has one
GetTransitionFallThrough(a, event) ==
    LET satisfied == SatisfiedConditions(a, event)
    IN IF Len(satisfied) = 0 /\ LastEntry(a) = None
       THEN [outcome |-> "NoSatisfiedCondition", transition |-> None]
       ELSE IF Len(satisfied) > 1
       THEN [outcome |-> "AmbiguousConditions", transition |-> None]
       ELSE [outcome |-> "ok", transition |-> LastEntry(a)]

\* `>= 1` in place of `> 1`
GetTransitionGe1(a, event) ==
    LET satisfied == SatisfiedConditions(a, event)
    IN IF Len(satisfied) = 0
       THEN [outcome |-> "NoSatisfiedCondition", transition |-> None]
       ELSE IF Len(satisfied) >= 1
       THEN [outcome |-> "AmbiguousConditions", transition |-> None]
       ELSE [outcome |-> "ok", transition |-> LastEntry(a)]

\* a transition taken by the call before is not offered again
GetTransitionOnce(a, event) ==
    LET satisfied == SatisfiedConditions(a, event)
    IN IF Len(satisfied) = 0
          \/ (last.op = "Step" /\ last.a = a /\ last.outcome = "ok")
       THEN [outcome |-> "NoSatisfiedCondition", transition |-> None]
       ELSE IF Len(satisfied) > 1
       THEN [outcome |-> "AmbiguousConditions", transition |-> None]
       ELSE [outcome |-> "ok", transition |-> LastEntry(a)]

\* Automation._get_transition: the local `transition` is the loop variable,
\* so after the loop it holds the value of the last table entry.
GetTransition(a, event) ==
    LET satisfied == SatisfiedConditions(a, event)
        transition == LastEntry(a)
    IN IF Len(satisfied) = 0
       THEN [outcome |-> "NoSatisfiedCondition", transition |-> None]
       ELSE IF Len(satisfied) > 1
       THEN [outcome |-> "AmbiguousConditions", transition |-> None]
       ELSE [outcome |-> "ok", transition |-> transition]

\* Automation.next: _get_transition, _run_transition, return transition.next
AutomationNext(a, event) ==
    LET g == GetTransition(a, event)
    IN IF g.outcome # "ok"
       THEN [outcome |-> g.outcome, ran |-> <<>>, ret |-> None]
       ELSE [outcome |-> "ok", ran |-> <<g.transition>>,
             ret |-> trans[g.transition].next]

\* a step that consumes the table of the automaton it steps
StepConsume(a, event) ==
    LET r == AutomationNext(a, event)
    IN /\ pc = "build"
       /\ last' = [NoOp EXCEPT !.op = "Step", !.a = a, !.event = event,
                               !.outcome = r.outcome, !.ran = r.ran,
                               !.ret = r.ret]
       /\ automata' = [automata EXCEPT ![a].transitions = <<>>]
       /\ prev' = Repeated(a, event)
       /\ UNCHANGED <<conditions, trans, pc, root, current, steps, calls>>

\* `a.next(event)` called by the caller while declaring
Step(a, event) ==
    LET r == AutomationNext(a, event)
    IN /\ pc = "build"
       /\ last' = [NoOp EXCEPT !.op = "Step", !.a = a, !.event = event,
                               !.outcome = r.outcome, !.ran = r.ran,
                               !.ret = r.ret]
       /\ prev' = Repeated(a, event)
       /\ UNCHANGED <<automata, conditions, trans, pc, root, current, steps, calls>>

\* ---- the driver loop ----

\* the loop test with its comparison inverted
LoopTestInverted(a) ==
    IF a = None THEN "failed"
    ELSE IF automata[a].state = "Finish" THEN "run" ELSE "done"

\* the loop test `a.state != State.Finish` on the value `a` now holds; on
\* None the attribute access raises.
LoopTest(a) ==
    IF a = None THEN "failed"
    ELSE IF automata[a].state # "Finish" THEN "run" ELSE "done"

\* `a = start`, followed by the first loop test
DriverStart(a) ==
    /\ pc = "build"
    /\ automata[a].via = "root"
    /\ root' = a
    /\ current' = a
    /\ pc' = LoopTest(a)
    /\ steps' = 0
    /\ calls' = 0
    /\ last' = [NoOp EXCEPT !.op = "DriverStart", !.a = a, !.driver = TRUE]
    /\ prev' = NoPrev
    /\ UNCHANGED <<automata, conditions, trans>>

\* one iteration: `a = a.next(event)`, followed by the next loop test
DriverStep(event) ==
    LET r == AutomationNext(current, event)
    IN /\ pc = "run"
       /\ steps' = steps + 1
       /\ calls' = calls + Len(r.ran)
       /\ last' = [NoOp EXCEPT !.op = "Step", !.a = current,
                               !.event = event, !.outcome = r.outcome,
                               !.ran = r.ran, !.ret = r.ret,
                               !.driver = TRUE]
       /\ IF r.outcome = "ok"
          THEN /\ current' = r.ret
               /\ pc' = LoopTest(r.ret)
          ELSE /\ current' = current
               /\ pc' = "failed"
       /\ prev' = Repeated(current, event)
       /\ UNCHANGED <<automata, conditions, trans, root>>

Next ==
    \/ \E cls \in AutomationClasses, s \in States : Begin(cls, s)
    \/ \E cls \in CallerClasses, s \in States : Construct(cls, s)
    \/ \E a \in DOMAIN automata, cls \in ConditionClasses : MatMul(a, cls)
    \/ \E c \in DOMAIN conditions, cls \in TransitionClasses : Or(c, cls)
    \/ \E t \in DOMAIN trans, s \in States : Gt(t, s)
    \/ \E a \in DOMAIN automata, e \in Events : Step(a, e)
    \/ \E a \in DOMAIN automata : DriverStart(a)
    \/ \E e \in Events : DriverStep(e)

Spec == Init /\ [][Next]_vars

\* the driver loop keeps iterating while its test holds
FairSpec == Spec /\ WF_vars(\E e \in Events : DriverStep(e))

\* ======================= properties =======================

\* the table entries of the automaton of the last Step whose condition
\* holds of that Step's event
Matched == SatisfiedConditions(last.a, last.event)

\* C1: when exactly one Condition of the table is true of the event, Step
\* runs the action of the Transition paired with that Condition, and no
\* other, and returns that Transition's next.
C1_StepRunsMatched ==
    (last.op = "Step" /\ Len(Matched) = 1) =>
        /\ last.outcome = "ok"
        /\ last.ran = <<Matched[1][2]>>
        /\ last.ret = trans[Matched[1][2]].next

\* C2: when two or more Conditions of the table are true of the event, Step
\* fails with AmbiguousConditions whatever the order of the entries, and no
\* Transition action runs.
C2_AmbiguousFails ==
    (last.op = "Step" /\ Len(Matched) >= 2) =>
        /\ last.outcome = "AmbiguousConditions"
        /\ last.ran = <<>>
        /\ last.ret = None
        /\ last.driver => pc = "failed"

\* a Step with two matches on a table whose entries were committed in the
\* reverse of the order their conditions were attached in
C2_Witness ==
    /\ last.op = "Step"
    /\ Len(Matched) = 2
    /\ Matched[1][1] > Matched[2][1]
    /\ conditions[Matched[1][1]].cls # conditions[Matched[2][1]].cls
    /\ last.outcome = "AmbiguousConditions"

\* C3: when no Condition of the table is true of the event, an empty table
\* included, Step fails with NoSatisfiedCondition and no Transition action
\* runs; the driver loop on a non-Finish automaton with an empty table
\* fails on its first event.
C3_NoneSatisfiedFails ==
    (last.op = "Step" /\ Len(Matched) = 0) =>
        /\ last.outcome = "NoSatisfiedCondition"
        /\ last.ran = <<>>
        /\ last.ret = None
        /\ last.driver => (pc = "failed" /\ current = last.a)
        /\ (last.driver /\ last.a = root) => (steps = 1 /\ calls = 0)

\* the driver loop has failed on its first event at a root with an empty
\* table
C3_Witness ==
    /\ last.op = "Step"
    /\ last.driver
    /\ last.a = root
    /\ automata[root].transitions = <<>>
    /\ ~Finished(root)
    /\ last.outcome = "NoSatisfiedCondition"
    /\ pc = "failed"
    /\ steps = 1

\* C4: once a Transition's next is set it never changes, and a BindNext on
\* a bound Transition fails with TransitionAlreadyBound and creates no
\* Automaton.
C4_BindOnce ==
    [][/\ \A t \in DOMAIN trans :
             IsBound(t) => trans'[t].next = trans[t].next
       /\ (last'.op = "BindNext" /\ trans[last'.t].next # None) =>
             /\ last'.outcome = "TransitionAlreadyBound"
             /\ last'.ret = None
             /\ automata' = automata
             /\ trans' = trans]_vars

\* a second BindNext on a bound Transition has failed
C4_Witness ==
    /\ last.op = "BindNext"
    /\ last.outcome = "TransitionAlreadyBound"
    /\ trans[last.t].next \in DOMAIN automata

\* C5: Commit on a Condition that is already a key of its automaton's table
\* fails with DuplicateCondition and leaves the table as it was: the
\* Condition still maps to the first Transition and the Transition just
\* constructed is in no table.
C5_DuplicateCommit ==
    [][(/\ last'.op = "Commit"
        /\ last'.c \in Keys(automata[conditions[last'.c].automation].transitions))
       => /\ last'.outcome = "DuplicateCondition"
          /\ automata' = automata
          /\ last'.t \in DOMAIN trans' \ DOMAIN trans
          /\ \A a \in DOMAIN automata' :
                last'.t \notin Values(automata'[a].transitions)]_vars

\* a Commit has failed on a Condition committed before
C5_Witness ==
    /\ last.op = "Commit"
    /\ last.outcome = "DuplicateCondition"
    /\ \E i \in DOMAIN automata[conditions[last.c].automation].transitions :
          LET p == automata[conditions[last.c].automation].transitions[i]
          IN p[1] = last.c /\ p[2] < last.t

\* C6: Step returns an Automaton or fails with NoSatisfiedCondition or
\* AmbiguousConditions; it never returns None.
C6_StepOutcomes ==
    last.op = "Step" =>
        \/ last.outcome = "ok" /\ last.ret \in DOMAIN automata
        \/ last.outcome \in {"NoSatisfiedCondition", "AmbiguousConditions"}

\* the graph of the example: a root in Start whose table holds one entry,
\* an OK Condition committed to a Noop Transition bound to Finish
SingleOKNoopFinish(a) ==
    /\ Len(automata[a].transitions) = 1
    /\ LET p == automata[a].transitions[1]
       IN /\ conditions[p[1]].cls = "OK"
          /\ trans[p[2]].cls = "Noop"
          /\ trans[p[2]].next # None
          /\ automata[trans[p[2]].next].state = "Finish"

IsExample(a) ==
    /\ a # None
    /\ automata[a].via = "root"
    /\ automata[a].state = "Start"
    /\ SingleOKNoopFinish(a)

\* C7: the driver loop started at the root of the example graph ends, for
\* any event, after exactly one Step, with the Noop action called once and
\* current the Finish automaton the Transition is bound to.
C7_ExampleTerminates ==
    (pc = "run" /\ IsExample(root) /\ current = root /\ steps = 0)
        ~> (/\ pc = "done"
            /\ steps = 1
            /\ calls = 1
            /\ last.ran = <<automata[root].transitions[1][2]>>
            /\ current = trans[automata[root].transitions[1][2]].next
            /\ automata[current].state = "Finish")

\* the loop of the example has ended
C7_Witness ==
    /\ pc = "done"
    /\ IsExample(root)
    /\ steps = 1
    /\ calls = 1
    /\ current # root
    /\ Finished(current)

\* C8: Step on an automaton whose table holds exactly one entry, an OK
\* Condition committed to a Noop Transition bound to Finish, succeeds for
\* every event and returns an automaton in state Finish, finished.
C8_SingleOKStep ==
    (last.op = "Step" /\ SingleOKNoopFinish(last.a)) =>
        /\ last.outcome = "ok"
        /\ last.ret = trans[automata[last.a].transitions[1][2]].next
        /\ automata[last.ret].state = "Finish"
        /\ Finished(last.ret)

\* such a Step on the event no other condition class is true of
C8_Witness ==
    /\ last.op = "Step"
    /\ SingleOKNoopFinish(last.a)
    /\ last.event = "Y"
    /\ last.outcome = "ok"
    /\ Finished(last.ret)

\* C9: Step changes no Automaton's state or table and no Transition's next;
\* tables change only in Commit; no operation changes the state of an
\* existing Automaton.
C9_StepFrame ==
    [][/\ last'.op = "Step" =>
             /\ automata' = automata
             /\ trans' = trans
             /\ conditions' = conditions
       /\ \A a \in DOMAIN automata :
             /\ a \in DOMAIN automata'
             /\ automata'[a].state = automata[a].state
             /\ automata'[a].transitions # automata[a].transitions
                   => last'.op = "Commit"]_vars

\* a Step has succeeded and a Step has failed on automata with a table
C9_Witness ==
    /\ last.op = "Step"
    /\ last.outcome = "ok"
    /\ last.ret # None
    /\ \E a \in DOMAIN automata : Len(automata[a].transitions) = 2

\* C10: a successful BindNext creates a new Automaton, distinct from all
\* existing ones, of the class of the Transition's automaton, in the target
\* state and with an empty table, assigns it to next, returns it, and
\* leaves the existing automata as they were.
C10_BindNextClones ==
    [][(last'.op = "BindNext" /\ last'.outcome = "ok") =>
          LET t == last'.t
              n == last'.ret
          IN /\ n \notin DOMAIN automata
             /\ DOMAIN automata' = DOMAIN automata \cup {n}
             /\ automata'[n].cls = automata[trans[t].automation].cls
             /\ automata'[n].state = last'.state
             /\ automata'[n].transitions = <<>>
             /\ trans'[t].next = n
             /\ \A a \in DOMAIN automata : automata'[a] = automata[a]]_vars

\* a BindNext has succeeded on a Transition of an automaton of a
\* caller-defined class
C10_Witness ==
    /\ last.op = "BindNext"
    /\ last.outcome = "ok"
    /\ automata[trans[last.t].automation].cls = "Sub"
    /\ automata[last.ret].cls = "Sub"
    /\ trans[last.t].next = last.ret

\* the automata whose table has the Condition c as a key
TablesOf(c) == {a \in DOMAIN automata : c \in Keys(automata[a].transitions)}

\* C11: a Condition that is a key of some table is a key of exactly one
\* table, the one of the automaton it was attached to, and of no other.
C11_KeyInOwnersTable ==
    \A c \in DOMAIN conditions :
        /\ TablesOf(c) \subseteq {conditions[c].automation}
        /\ \A a \in TablesOf(c) :
              Cardinality({i \in DOMAIN automata[a].transitions :
                              automata[a].transitions[i][1] = c}) = 1

\* two Conditions attached to different automata are both committed
C11_Witness ==
    \E c, d \in DOMAIN conditions :
        /\ conditions[c].automation # conditions[d].automation
        /\ TablesOf(c) = {conditions[c].automation}
        /\ TablesOf(d) = {conditions[d].automation}

\* C12: every Automaton, a root or a successor, is finished exactly when
\* its state is Finish: the state it was created with.
C12_FinishedIffFinish ==
    /\ \A a \in DOMAIN automata :
          Finished(a) <=> automata[a].state = "Finish"
    /\ (last.op \in {"Begin", "Construct", "BindNext"} /\ last.outcome = "ok")
          => (Finished(last.ret) <=> last.state = "Finish")

\* a finished root, a finished successor and an automaton not finished
C12_Witness ==
    /\ \E a \in DOMAIN automata :
          automata[a].via = "root" /\ Finished(a)
    /\ \E a \in DOMAIN automata :
          automata[a].via = "clone" /\ Finished(a)
    /\ \E a \in DOMAIN automata : ~Finished(a)

\* C13: AttachCondition succeeds, returns a new Condition owned by the
\* automaton it is applied to and changes no table; a Condition becomes a
\* key of a table only in the Commit applied to it.
C13_AttachFrame ==
    [][/\ last'.op = "AttachCondition" =>
             /\ last'.outcome = "ok"
             /\ last'.ret \notin DOMAIN conditions
             /\ DOMAIN conditions' = DOMAIN conditions \cup {last'.ret}
             /\ conditions'[last'.ret].automation = last'.a
             /\ conditions'[last'.ret].cls = last'.cls
             /\ \A c \in DOMAIN conditions : conditions'[c] = conditions[c]
             /\ automata' = automata
             /\ trans' = trans
             /\ \A a \in DOMAIN automata' :
                   last'.ret \notin Keys(automata'[a].transitions)
       /\ \A c \in DOMAIN conditions', a \in DOMAIN automata :
             (/\ c \notin Keys(automata[a].transitions)
              /\ c \in Keys(automata'[a].transitions))
             => (last'.op = "Commit" /\ last'.c = c)]_vars

\* a Condition has been attached to an automaton that has a table entry
\* already, and is no key
C13_Witness ==
    /\ last.op = "AttachCondition"
    /\ conditions[last.ret].automation = last.a
    /\ Len(automata[last.a].transitions) = 1
    /\ last.ret \notin Keys(automata[last.a].transitions)

\* every entry of a table is owned by the automaton of the table
EntriesOwned ==
    \A a \in DOMAIN automata :
        \A i \in DOMAIN automata[a].transitions :
            LET p == automata[a].transitions[i]
            IN /\ conditions[p[1]].automation = a
               /\ trans[p[2]].automation = a

\* C14: the Condition and the Transition of every table entry are owned by
\* the automaton of the table; a successful Commit adds exactly one entry,
\* to the table of the Condition's owner, changes no other table and
\* returns the Transition it inserted.
C14_CommitOwnership ==
    [][/\ EntriesOwned'
       /\ (last'.op = "Commit" /\ last'.outcome = "ok") =>
             LET a == conditions[last'.c].automation
             IN /\ last'.ret = last'.t
                /\ last'.t \in DOMAIN trans' \ DOMAIN trans
                /\ automata'[a].transitions =
                      Append(automata[a].transitions, <<last'.c, last'.ret>>)
                /\ \A b \in DOMAIN automata \ {a} :
                      automata'[b] = automata[b]
                /\ DOMAIN automata' = DOMAIN automata]_vars

\* a Commit has added a second entry to a table
C14_Witness ==
    /\ last.op = "Commit"
    /\ last.outcome = "ok"
    /\ LET table == automata[conditions[last.c].automation].transitions
       IN Len(table) = 2 /\ table[2] = <<last.c, last.ret>>

\* C15: an automaton returned by a successful Step from which nothing has
\* been declared has an empty table, and a Step on it fails with
\* NoSatisfiedCondition for every event, whether it is finished or not.
C15_SuccessorStepFails ==
    [][(/\ last.op = "Step"
        /\ last.outcome = "ok"
        /\ last.ret # None
        /\ \A c \in DOMAIN conditions : conditions[c].automation # last.ret)
       => /\ automata[last.ret].transitions = <<>>
          /\ \A e \in Events :
                AutomationNext(last.ret, e).outcome = "NoSatisfiedCondition"
          /\ (last'.op = "Step" /\ last'.a = last.ret) =>
                /\ last'.outcome = "NoSatisfiedCondition"
                /\ last'.ran = <<>>]_vars

\* the loop has stepped from its root to a successor with an empty table
\* and the second Step has failed
C15_Witness ==
    /\ pc = "failed"
    /\ steps = 2
    /\ calls = 1
    /\ current # root
    /\ automata[current].transitions = <<>>
    /\ last.op = "Step"
    /\ last.a = current
    /\ last.outcome = "NoSatisfiedCondition"

\* C16: Begin applied to an automaton class and a state returns a new
\* automaton of that class, in that state, with an empty table.
C16_BeginKeepsClass ==
    last.op = "Begin" =>
        /\ last.outcome = "ok"
        /\ automata[last.ret].cls = last.cls
        /\ automata[last.ret].state = last.state
        /\ automata[last.ret].transitions = <<>>

\* the edges from a Transition's automaton to its next
Edges ==
    {<<trans[t].automation, trans[t].next>> :
        t \in {u \in DOMAIN trans : trans[u].next # None}}

RECURSIVE ReachN(_, _)
ReachN(S, n) ==
    IF n = 0 THEN S
    ELSE ReachN(S \cup {e[2] : e \in {f \in Edges : f[1] \in S}}, n - 1)

\* the automata reachable from a by one edge or more
Descendants(a) ==
    ReachN({e[2] : e \in {f \in Edges : f[1] = a}}, Len(automata))

\* C17: the automata and the edges from a Transition's automaton to its
\* next form a forest: an automaton created by BindNext is the next of
\* exactly one Transition, one created by Begin of none, and no automaton
\* is reachable from itself.
C17_Forest ==
    \A a \in DOMAIN automata :
        /\ Cardinality({t \in DOMAIN trans : trans[t].next = a}) =
              IF automata[a].via = "clone" THEN 1 ELSE 0
        /\ a \notin Descendants(a)

\* a chain of two edges
C17_Witness ==
    \E a \in DOMAIN automata :
        \E b \in Descendants(a) : Descendants(b) # {}

\* C18: the driver loop stops, in Finish or with a failure, after at most
\* as many Steps as there are automata in the graph of its root.
C18_DriverStops ==
    /\ [](pc # "build" =>
            steps <= Cardinality({root} \cup Descendants(root)))
    /\ [](pc = "done" => (current # None /\ automata[current].state = "Finish"))
    /\ (pc = "run") ~> (pc \in {"done", "failed"})

\* the loop has ended in Finish after two Steps
C18_Witness ==
    /\ pc = "done"
    /\ steps = 2
    /\ Finished(current)

\* C19: a Step that repeats the Step before it, on the same automaton with
\* the same event and nothing declared in between, has the same outcome:
\* the same error, or the same Transition run and the same Automaton
\* returned.
C19_StepRepeatable ==
    prev.repeat =>
        /\ last.op = "Step"
        /\ last.outcome = prev.outcome
        /\ last.ran = prev.ran
        /\ last.ret = prev.ret
        /\ last.ret \in DOMAIN automata \cup {None}

\* a successful Step has been repeated
C19_Witness ==
    /\ prev.repeat
    /\ last.outcome = "ok"
    /\ last.ret \in DOMAIN automata
    /\ prev.ret = last.ret

====
